---- MODULE Spec2Model ----
(***************************************************************************)
(* Model of Reader (src/Reader/Reader.cpp): sequential reading of events   *)
(* from a list of trees of one ROOT file, decoding into pt-ordered         *)
(* collections, selection of systematic variants, cached event weight.     *)
(*                                                                         *)
(* Floating-point weights are modelled by naturals (products of small      *)
(* factors); objects carry their pt and one field "tag"/"btag" standing    *)
(* for the remaining fields copied from the read buffers.                  *)
(***************************************************************************)
EXTENDS Integers, Sequences, FiniteSets, TLC

(***************************************************************************)
(* Bounds of the model                                                     *)
(***************************************************************************)
\* longest list of tree names given to the constructor
MaxNames == 2
\* number of entries of tree "A" and of tree "B" in the source file
EntriesA == 3
EntriesB == 2
\* how many reads past the last entry of a tree are followed
MaxStuck == 2

(***************************************************************************)
(* The source file: trees "A" and "B" hold entries, "E" is a tree without  *)
(* entries, "X" is a name the file does not hold.                          *)
(***************************************************************************)
TreeNames == {"A", "B", "E", "X"}

NoTree == "null"

\* The trees the file holds at construction
TreesAtStart == {"A", "B", "E"}

\* The trees the file holds now: srcFile is a shared_ptr, the file stays in the
\* hands of its owner as well
VARIABLE inFile

\* srcFile->Get(name) followed by dynamic_cast<TTree *>: non-null or null
Resolvable(name) == name \in inFile

\* TTree::GetEntries
GetEntries(name) ==
    CASE name = "A" -> EntriesA
      [] name = "B" -> EntriesB
      [] OTHER -> 0

TreeId(name) ==
    CASE name = "A" -> 1
      [] name = "B" -> 3
      [] OTHER -> 0

\* Content of entry i of a tree, as TTree::GetEntry writes it to the buffers:
\* one of four patterns of objects (pt not ordered, equal pt, no object at all,
\* jets of b-tag weight zero), with MET, vertex count and raw weight of its own.
L(pt, tag) == [pt |-> pt, tag |-> tag]
J(pt, btag) == [pt |-> pt, btag |-> btag]

Objects(p) ==
    CASE p = 1 -> [lep |-> <<L(1, 1), L(3, 2), L(2, 3)>>,
                   jet |-> <<J(1, 2), J(3, 0), J(3, 1)>>,
                   jetUp |-> <<J(2, 2), J(4, 0), J(3, 1)>>,
                   jetDown |-> <<J(2, 1), J(1, 2)>>]
      [] p = 2 -> [lep |-> <<L(2, 1), L(2, 2)>>,
                   jet |-> <<>>,
                   jetUp |-> <<J(1, 1)>>,
                   jetDown |-> <<>>]
      [] p = 3 -> [lep |-> <<>>,
                   jet |-> <<J(3, 1)>>,
                   jetUp |-> <<J(4, 1)>>,
                   jetDown |-> <<J(2, 1), J(2, 0)>>]
      [] OTHER -> [lep |-> <<L(3, 1)>>,
                   jet |-> <<J(2, 0), J(1, 0)>>,
                   jetUp |-> <<J(1, 0), J(2, 0)>>,
                   jetDown |-> <<J(1, 0)>>]

Entry(name, i) ==
    LET t == TreeId(name)
        o == Objects((t + i) % 4)
    IN [lep |-> o.lep, jet |-> o.jet, jetUp |-> o.jetUp, jetDown |-> o.jetDown,
        met |-> 10 * t + i, metUp |-> 10 * t + i + 1, metDown |-> 10 * t + i - 1,
        nPV |-> t + i, rawWeight |-> 2 + ((t + i) % 2)]

\* Contents the read buffers can hold before the first load (no constructor code
\* sets them)
UninitBufs ==
    {[lep |-> <<>>, jet |-> <<>>, jetUp |-> <<>>, jetDown |-> <<>>,
      met |-> 0, metUp |-> 0, metDown |-> 0, nPV |-> 0, rawWeight |-> 0],
     [lep |-> <<>>, jet |-> <<[pt |-> 1, btag |-> 1]>>, jetUp |-> <<>>, jetDown |-> <<>>,
      met |-> 7, metUp |-> 7, metDown |-> 7, nPV |-> 9, rawWeight |-> 5]}

SystTypes == {"Nominal", "JEC", "BTag"}
SystDirections == {"Up", "Down"}

\* csvReweighter.CalculateJetWeight: a per-jet factor that depends on the jet and
\* on the systematics, and is exactly zero for some jets
CalculateJetWeight(j, systType, systDirection) ==
    IF j.btag = 0 THEN 0
    ELSE IF systType = "BTag"
         THEN (IF systDirection = "Up" THEN j.btag + 1 ELSE j.btag - 1)
         ELSE j.btag

(***************************************************************************)
(* sort(v.rbegin(), v.rend()) with operator< comparing pt: for the short   *)
(* vectors read here std::sort is an insertion sort over the reversed      *)
(* range, which leaves v in non-increasing pt, equal pt in original order. *)
(***************************************************************************)
RECURSIVE InsertDesc(_, _)
InsertDesc(s, x) ==
    IF s = <<>> THEN <<x>>
    ELSE IF Head(s).pt < x.pt THEN <<x>> \o s
    ELSE <<Head(s)>> \o InsertDesc(Tail(s), x)

RECURSIVE SortDescFrom(_, _)
SortDescFrom(done, rest) ==
    IF rest = <<>> THEN done
    ELSE SortDescFrom(InsertDesc(done, Head(rest)), Tail(rest))

\* The mutant leaves the objects in buffer order
BufferOrder(s) == s

SortDesc(s) == SortDescFrom(<<>>, s)

(***************************************************************************)
(* State                                                                   *)
(***************************************************************************)
VARIABLES
    \* constructor arguments
    srcFileOk, treeNames, isMC,
    \* "new" before the constructor, "live" while the object can be called,
    \* "dead" once construction failed or the process ended
    pc,
    \* members of Reader
    curTreeNameIt, curTree, dangling, nEntries, curEntry, buf,
    leptons, jets, jetsJECUp, jetsJECDown, met, metJECUp, metJECDown,
    curSystType, curSystDirection, applyBTagReweighting, weight, weightCached,
    \* observation of the last call: its name, argument, outcome, the value
    \* ReadNextEvent returned, the number of CalculateJetWeight calls it made
    lastOp, arg, outcome, ret, nCalls,
    \* history: entries passed to GetEntry since construction or the last rewind,
    \* the event decoded by the first call of ReadNextEvent, progress flags
    loads, firstEvent, ended, pastEnd, phase, since, gwSince, lastWeight, prevWeight,
    cachedBefore

args == <<srcFileOk, inFile, treeNames, isMC>>
cursor == <<curTreeNameIt, curTree, dangling, nEntries, curEntry>>
decoded == <<buf, leptons, jets, jetsJECUp, jetsJECDown, met, metJECUp, metJECDown>>
syst == <<curSystType, curSystDirection>>
cache == <<weight, weightCached>>
gwHist == <<gwSince, lastWeight, prevWeight, cachedBefore>>
vars == <<args, pc, cursor, decoded, syst, applyBTagReweighting, cache,
          lastOp, arg, outcome, ret, nCalls,
          loads, firstEvent, ended, pastEnd, phase, since, gwHist>>

None == "none"

\* list<string>::end() as a position
End == Len(treeNames) + 1

\* The decoded event as the accessors can see it
Event ==
    [leptons |-> leptons, jets |-> jets, jetsJECUp |-> jetsJECUp,
     jetsJECDown |-> jetsJECDown, met |-> met, metJECUp |-> metJECUp,
     metJECDown |-> metJECDown, nPV |-> buf.nPV, rawWeight |-> buf.rawWeight]

\* All lists of at most n tree names
RECURSIVE NameLists(_)
NameLists(n) ==
    IF n = 0 THEN {<<>>}
    ELSE LET shorter == NameLists(n - 1) IN
         shorter \cup {Append(l, x) : l \in {m \in shorter : Len(m) = n - 1}, x \in TreeNames}

\* The object's members before construction; the members that neither the
\* initialiser list nor the constructor body sets (weightCached, the buffers) hold
\* an indeterminate value until they are first written.
Init ==
    /\ srcFileOk \in BOOLEAN
    /\ inFile = TreesAtStart
    /\ treeNames \in NameLists(MaxNames)
    /\ isMC \in BOOLEAN
    /\ pc = "new"
    /\ curTreeNameIt = 0
    /\ curTree = NoTree
    /\ dangling = FALSE
    /\ nEntries = 0
    /\ curEntry = 0
    /\ buf \in UninitBufs
    /\ leptons = <<>> /\ jets = <<>> /\ jetsJECUp = <<>> /\ jetsJECDown = <<>>
    /\ met = 0 /\ metJECUp = 0 /\ metJECDown = 0
    /\ curSystType = "Nominal"
    /\ curSystDirection = "Down"
    /\ applyBTagReweighting = FALSE
    /\ weight = 0
    /\ weightCached \in BOOLEAN
    /\ lastOp = None /\ arg = None /\ outcome = None /\ ret = FALSE /\ nCalls = 0
    /\ loads = <<>> /\ firstEvent = <<>> /\ ended = FALSE /\ pastEnd = FALSE
    /\ phase = None /\ since = "nothing"
    /\ gwSince = None /\ lastWeight = <<>> /\ prevWeight = <<>> /\ cachedBefore = FALSE

\* The observation of a call: its name, argument and outcome
Observe(op, a, out) == lastOp' = op /\ arg' = a /\ outcome' = out

\* A call other than GetWeight calls no reweighting and observes no weight
NoWeightSeen ==
    nCalls' = 0 /\ gwSince' = None /\ prevWeight' = <<>> /\ cachedBefore' = FALSE

(***************************************************************************)
(* Reader::Reader                                                          *)
(***************************************************************************)
\* The members set by the initialiser list
MemberInit ==
    /\ curTreeNameIt' = 1
    /\ curSystType' = "Nominal"
    /\ curSystDirection' = "Up"
    /\ applyBTagReweighting' = TRUE

\* curEntry = 0 in GetTree
FirstEntry == 0

\* GetTree(name) on a name the file resolves: counters and the data weight are set
\* (the buffers are bound again, which does not change their content)
GetTreeBinds(name) ==
    /\ curTree' = name
    /\ dangling' = FALSE
    /\ nEntries' = GetEntries(name)
    /\ curEntry' = FirstEntry
    /\ weight' = 1

\* The mutant throws at the end of GetTree, when the weight of data has been set
GetTreeThrowsLate ==
    /\ curTree' = NoTree
    /\ dangling' = FALSE
    /\ weight' = 1
    /\ UNCHANGED <<nEntries, curEntry>>

\* GetTree(name) on a name the file does not resolve: curTree is reset to null and
\* runtime_error is thrown before the counters and the weight are touched
GetTreeThrows ==
    /\ curTree' = NoTree
    /\ dangling' = FALSE
    /\ UNCHANGED <<nEntries, curEntry, weight>>

\* The mutant does not check the pointer
NeverMissing(name) == FALSE

\* if (not curTree) throw
TreeMissing(name) == ~Resolvable(name)

Reader ==
    /\ pc = "new"
    /\ MemberInit
    /\ NoWeightSeen
    /\ UNCHANGED <<args, decoded, weightCached, ret, loads, firstEvent,
                   ended, pastEnd, phase, since, lastWeight>>
    /\ \/ \* the source file is absent or a zombie
          /\ ~srcFileOk
          /\ pc' = "dead"
          /\ Observe("Reader", None, "SourceInvalid")
          /\ UNCHANGED <<curTree, dangling, nEntries, curEntry, weight>>
       \/ \* *curTreeNameIt on an empty list dereferences end(): undefined; the
          \* read of the sentinel node faults, or yields a string no tree is named by
          /\ srcFileOk /\ treeNames = <<>>
          /\ pc' = "dead"
          /\ \E out \in {"crash", "MissingTree"} : Observe("Reader", None, out)
          /\ UNCHANGED <<curTree, dangling, nEntries, curEntry, weight>>
       \/ /\ srcFileOk /\ treeNames # <<>>
          /\ IF TreeMissing(treeNames[1])
             THEN /\ GetTreeThrows
                  /\ pc' = "dead"
                  /\ Observe("Reader", None, "MissingTree")
             ELSE /\ GetTreeBinds(treeNames[1])
                  /\ pc' = "live"
                  /\ Observe("Reader", None, "ok")

(***************************************************************************)
(* Reader::ReadNextEvent                                                   *)
(***************************************************************************)
\* The mutant leaves the iterator where it is
NextItStays == curTreeNameIt

\* ++curTreeNameIt. Incrementing end() is undefined; where it does not fault, the
\* circular list takes the iterator from the sentinel to the first node.
NextIt == IF curTreeNameIt = End THEN 1 ELSE curTreeNameIt + 1

\* srcFile->Get(name) returns the very object curTree owns, so that
\* curTree.reset(p) deletes the tree it is set to (the comment in Rewind)
SamePointer(name) == curTree = name /\ ~dangling

\* curTree->GetEntry(i): the bound buffers receive entry i; an index that is no
\* entry of the tree loads nothing. Only a simulation sample binds the JEC
\* buffers and rawWeight.
GetEntry(name, i) ==
    IF i >= GetEntries(name) THEN buf
    ELSE LET e == Entry(name, i) IN
         IF isMC THEN e
         ELSE [buf EXCEPT !.lep = e.lep, !.jet = e.jet, !.met = e.met, !.nPV = e.nPV]

\* Copy the objects from the read buffers and order them in pt
Decode(b) ==
    /\ buf' = b
    /\ leptons' = SortDesc(b.lep)
    /\ jets' = SortDesc(b.jet)
    /\ met' = b.met
    /\ IF isMC
       THEN /\ jetsJECUp' = SortDesc(b.jetUp)
            /\ jetsJECDown' = SortDesc(b.jetDown)
            /\ metJECUp' = b.metUp
            /\ metJECDown' = b.metDown
       ELSE UNCHANGED <<jetsJECUp, jetsJECDown, metJECUp, metJECDown>>

\* The mutant marks the cached weight out of date before it looks for entries
InvalidatedAtEnd == weightCached' = FALSE /\ UNCHANGED <<decoded, weight>>

\* return false: ReadNextEvent is left before an entry is loaded and before the
\* cached weight is marked out of date
NoMoreTrees == UNCHANGED <<decoded, cache>>

\* The first call of ReadNextEvent after construction is remembered
NoteFirst(ok, ev) ==
    firstEvent' = IF firstEvent = <<>> THEN <<[ok |-> ok, ev |-> ev]>> ELSE firstEvent

ReadNextEvent ==
    /\ pc = "live"
    /\ curEntry < nEntries + MaxStuck
    /\ UNCHANGED <<args, syst, applyBTagReweighting>>
    /\ NoWeightSeen
    /\ lastWeight' = <<>>
    /\ LET advance == curEntry = nEntries
           it == IF advance THEN NextIt ELSE curTreeNameIt
           rebind == advance /\ it # End
           undefined == \/ advance /\ curTreeNameIt = End
                        \/ rebind /\ Resolvable(treeNames[it]) /\ SamePointer(treeNames[it])
                        \/ dangling
       IN
       \/ \* undefined behaviour that ends the process
          /\ undefined
          /\ pc' = "dead"
          /\ Observe("ReadNextEvent", None, "crash")
          /\ ret' = FALSE
          /\ pastEnd' = (pastEnd \/ (advance /\ curTreeNameIt = End))
          /\ UNCHANGED <<cursor, decoded, cache, loads, firstEvent, ended, phase, since>>
       \/ \* no more source trees
          /\ advance /\ it = End
          /\ curTreeNameIt' = it
          /\ ret' = FALSE
          /\ Observe("ReadNextEvent", None, "ok")
          /\ pc' = "live"
          /\ ended' = TRUE
          /\ pastEnd' = (pastEnd \/ curTreeNameIt = End)
          /\ NoteFirst(FALSE, Event)
          /\ phase' = IF phase = "rewound" THEN "reread" ELSE None
          /\ since' = IF since = "nothing" THEN "called" ELSE since
          /\ NoMoreTrees
          /\ UNCHANGED <<curTree, dangling, nEntries, curEntry, loads>>
       \/ \* the next tree is not in the file
          /\ rebind /\ TreeMissing(treeNames[it])
          /\ curTreeNameIt' = it
          /\ GetTreeThrows
          /\ ret' = FALSE
          /\ Observe("ReadNextEvent", None, "MissingTree")
          /\ pc' = "live"
          /\ ended' = FALSE
          /\ pastEnd' = (pastEnd \/ curTreeNameIt = End)
          /\ NoteFirst(FALSE, Event)
          /\ phase' = IF phase = "rewound" THEN "reread" ELSE None
          /\ since' = IF since = "nothing" THEN "called" ELSE since
          /\ UNCHANGED <<decoded, weightCached, loads>>
       \/ \* an entry is read, from the current tree or from the next one
          /\ IF rebind THEN ~TreeMissing(treeNames[it]) ELSE TRUE
          /\ ~(advance /\ it = End)
          /\ curTreeNameIt' = it
          /\ LET name == IF rebind THEN treeNames[it] ELSE curTree
                 i == IF rebind THEN FirstEntry ELSE curEntry
             IN /\ curTree' = name
                /\ dangling' = IF rebind
                               THEN Resolvable(name) /\ SamePointer(name)
                               ELSE dangling
                /\ nEntries' = IF rebind THEN GetEntries(name) ELSE nEntries
                /\ curEntry' = i + 1
                /\ weight' = IF rebind THEN 1 ELSE weight
                /\ Decode(GetEntry(name, i))
                /\ pastEnd' = (pastEnd \/ (advance /\ curTreeNameIt = End))
                /\ loads' = IF pastEnd' THEN loads ELSE Append(loads, <<it, i>>)
          /\ weightCached' = FALSE
          /\ ret' = TRUE
          /\ Observe("ReadNextEvent", None, "ok")
          /\ pc' = "live"
          /\ ended' = FALSE
          /\ NoteFirst(TRUE, Event')
          /\ phase' = IF phase = "rewound" THEN "reread" ELSE None
          /\ since' = "invalidating"

(***************************************************************************)
(* Reader::Rewind (noexcept)                                               *)
(***************************************************************************)
\* curTreeNameIt = treeNames.begin(); the mutant rewinds to the last tree
RewindToLast == Len(treeNames)

RewindBegin == 1

Rewind ==
    /\ pc = "live"
    /\ NoWeightSeen
    /\ ret' = FALSE
    /\ UNCHANGED <<args, decoded, syst, applyBTagReweighting, weightCached,
                   firstEvent, since, lastWeight>>
    /\ \/ \* curTree.reset() deletes a tree that was deleted before: undefined
          /\ dangling
          /\ pc' = "dead"
          /\ Observe("Rewind", None, "crash")
          /\ UNCHANGED <<cursor, weight, loads, ended, pastEnd, phase>>
       \/ /\ curTreeNameIt' = RewindBegin
          /\ IF TreeMissing(treeNames[RewindBegin])
             THEN \* the exception leaves a noexcept function: std::terminate
                  /\ GetTreeThrows
                  /\ pc' = "dead"
                  /\ Observe("Rewind", None, "terminate")
             ELSE /\ GetTreeBinds(treeNames[RewindBegin])
                  /\ pc' = "live"
                  /\ Observe("Rewind", None, "ok")
          /\ loads' = <<>>
          /\ pastEnd' = FALSE
          /\ ended' = FALSE
          /\ phase' = IF ended THEN "rewound" ELSE None

(***************************************************************************)
(* Reader::SetSystematics                                                  *)
(***************************************************************************)
\* The mutant stores the requested direction as it is
RequestedDirection(systType, systDirection) == systDirection

\* If the type is Nominal, only direction Up is allowed
ForcedDirection(systType, systDirection) ==
    IF systType = "Nominal" THEN "Up" ELSE systDirection

\* The mutant keeps the cached weight when the systematics do not change
CachedUnlessChanged(systType, systDirection) ==
    weightCached /\ systType = curSystType /\ systDirection = curSystDirection

\* weightCached = false, whatever the systematics were
CachedAfterSetSystematics(systType, systDirection) == FALSE

SetSystematics(systType, systDirection) ==
    /\ pc = "live"
    /\ curSystType' = systType
    /\ curSystDirection' = ForcedDirection(systType, systDirection)
    /\ weightCached' = CachedAfterSetSystematics(systType, systDirection)
    /\ Observe("SetSystematics", systType \o ":" \o systDirection, "ok")
    /\ since' = "invalidating"
    /\ lastWeight' = <<>>
    /\ NoWeightSeen
    /\ ret' = FALSE
    /\ UNCHANGED <<args, pc, cursor, decoded, applyBTagReweighting, weight,
                   loads, firstEvent, ended, pastEnd, phase>>

(***************************************************************************)
(* Accessors                                                               *)
(***************************************************************************)
GetLeptons == leptons

\* The mutant exchanges the two directions
GetJetsSwapped ==
    IF isMC /\ curSystType = "JEC"
    THEN (IF curSystDirection = "Up" THEN jetsJECDown ELSE jetsJECUp)
    ELSE jets

GetJets ==
    IF isMC /\ curSystType = "JEC"
    THEN (IF curSystDirection = "Up" THEN jetsJECUp ELSE jetsJECDown)
    ELSE jets

GetMET ==
    IF isMC /\ curSystType = "JEC"
    THEN (IF curSystDirection = "Up" THEN metJECUp ELSE metJECDown)
    ELSE met

GetNumPV == buf.nPV

(***************************************************************************)
(* Reader::GetWeight (noexcept)                                            *)
(***************************************************************************)
\* The mutant multiplies by every factor, zero included
TimesAnyJetWeight(w, perJetBTagWeight) == w * perJetBTagWeight

\* if (perJetBTagWeight != 0.) weight *= perJetBTagWeight;
TimesJetWeight(w, perJetBTagWeight) ==
    IF perJetBTagWeight # 0 THEN w * perJetBTagWeight ELSE w

\* for (auto const &j: jets) ...
RECURSIVE BTagReweighted(_, _)
BTagReweighted(w, js) ==
    IF js = <<>> THEN w
    ELSE BTagReweighted(
            TimesJetWeight(w, CalculateJetWeight(Head(js), curSystType, curSystDirection)),
            Tail(js))

\* The weight computed when the cached one is not up-to-date
RecalculatedWeight ==
    IF applyBTagReweighting THEN BTagReweighted(buf.rawWeight, jets) ELSE buf.rawWeight

\* if (weightCached) return weight;
UseCached == weightCached

\* The mutant takes every sample for simulation
NeverData == FALSE

\* if (not isMC) return 1.;
IsData == ~isMC

GetWeight ==
    /\ pc = "live"
    /\ Observe("GetWeight", None, "ok")
    /\ prevWeight' = lastWeight
    /\ cachedBefore' = weightCached
    /\ gwSince' = since
    /\ since' = "nothing"
    /\ ret' = FALSE
    /\ UNCHANGED <<args, pc, cursor, decoded, syst, applyBTagReweighting,
                   loads, firstEvent, ended, pastEnd, phase>>
    /\ IF IsData
       THEN /\ lastWeight' = <<1>>
            /\ nCalls' = 0
            /\ UNCHANGED cache
       ELSE IF UseCached
       THEN /\ lastWeight' = <<weight>>
            /\ nCalls' = 0
            /\ UNCHANGED cache
       ELSE /\ weight' = RecalculatedWeight
            /\ weightCached' = TRUE
            /\ nCalls' = IF applyBTagReweighting THEN Len(jets) ELSE 0
            /\ lastWeight' = <<weight'>>

(***************************************************************************)
(* Reader::SwitchBTagReweighting                                           *)
(***************************************************************************)
\* The mutant marks the cached weight out of date
InvalidatedBySwitch(on) == FALSE

\* weightCached is not written
CachedAfterSwitch(on) == weightCached

SwitchBTagReweighting(on) ==
    /\ pc = "live"
    /\ applyBTagReweighting' = on
    /\ weightCached' = CachedAfterSwitch(on)
    /\ Observe("SwitchBTagReweighting", IF on THEN "on" ELSE "off", "ok")
    /\ NoWeightSeen
    /\ ret' = FALSE
    /\ UNCHANGED <<args, pc, cursor, decoded, syst, weight,
                   loads, firstEvent, ended, pastEnd, phase, since, lastWeight>>

(***************************************************************************)
(* The owner of the shared file                                            *)
(***************************************************************************)
\* The owner deletes from the file a tree that the Reader's list names and that
\* the Reader does not hold at the moment: a later srcFile->Get of its name
\* gives null
DeleteTree(name) ==
    /\ pc = "live"
    /\ name \in inFile
    /\ \E i \in 1..Len(treeNames) : treeNames[i] = name
    /\ name # curTree
    /\ inFile' = inFile \ {name}
    /\ Observe("DeleteTree", name, "ok")
    /\ NoWeightSeen
    /\ ret' = FALSE
    /\ UNCHANGED <<srcFileOk, treeNames, isMC, pc, cursor, decoded, syst,
                   applyBTagReweighting, cache,
                   loads, firstEvent, ended, pastEnd, phase, since, lastWeight>>

(***************************************************************************)
(* Specification                                                           *)
(***************************************************************************)
Next ==
    \/ Reader
    \/ ReadNextEvent
    \/ Rewind
    \/ \E systType \in SystTypes, systDirection \in SystDirections :
          SetSystematics(systType, systDirection)
    \/ GetWeight
    \/ \E on \in BOOLEAN : SwitchBTagReweighting(on)

Spec == Init /\ [][Next]_vars

\* The Reader of a caller that never calls SwitchBTagReweighting
NextNoSwitch ==
    \/ Reader
    \/ ReadNextEvent
    \/ Rewind
    \/ \E systType \in SystTypes, systDirection \in SystDirections :
          SetSystematics(systType, systDirection)
    \/ GetWeight

SpecNoSwitch == Init /\ [][NextNoSwitch]_vars

\* The Reader together with the owner of its file
NextShared ==
    \/ Next
    \/ \E name \in TreesAtStart : DeleteTree(name)

SpecShared == Init /\ [][NextShared]_vars

(***************************************************************************)
(* Properties                                                              *)
(***************************************************************************)
IsPrefix(s, t) == Len(s) <= Len(t) /\ \A k \in 1..Len(s) : s[k] = t[k]

\* The entries of the listed trees, in list order then entry order
RECURSIVE EntriesFrom(_)
EntriesFrom(i) ==
    IF i > Len(treeNames) THEN <<>>
    ELSE [j \in 1..GetEntries(treeNames[i]) |-> <<i, j - 1>>] \o EntriesFrom(i + 1)

AllEntries == EntriesFrom(1)

\* Every listed tree is in the file and holds an entry, and no tree is listed
\* twice in a row
PlainList ==
    /\ treeNames # <<>>
    /\ \A i \in 1..Len(treeNames) :
          Resolvable(treeNames[i]) /\ GetEntries(treeNames[i]) >= 1
    /\ \A i \in 1..(Len(treeNames) - 1) : treeNames[i] # treeNames[i + 1]

\* What the members hold when entry j of tree name has been loaded and decoded
HoldsEntry(name, j) ==
    LET e == Entry(name, j) IN
    /\ buf.lep = e.lep /\ buf.jet = e.jet /\ met = e.met /\ buf.nPV = e.nPV
    /\ isMC => /\ buf.jetUp = e.jetUp /\ buf.jetDown = e.jetDown
               /\ metJECUp = e.metUp /\ metJECDown = e.metDown
               /\ buf.rawWeight = e.rawWeight

RECURSIVE NonZeroProduct(_)
NonZeroProduct(fs) ==
    IF fs = <<>> THEN 1
    ELSE IF Head(fs) = 0 THEN NonZeroProduct(Tail(fs))
    ELSE Head(fs) * NonZeroProduct(Tail(fs))

\* The factors CalculateJetWeight gives for the jets js under the current systematics
JetFactors(js) ==
    [k \in 1..Len(js) |-> CalculateJetWeight(js[k], curSystType, curSystDirection)]

\* C2: the ReadNextEvent that follows a Rewind made after the end of the stream
\* returns true and decodes the event that the first ReadNextEvent after
\* construction decoded, with the cached weight marked out of date; the weight
\* GetWeight then computes is the one of that first event under the systematics
\* and the b-tag switch in force.
C2_Rewind ==
    (phase = "reread" /\ firstEvent[1].ok) =>
        /\ lastOp = "ReadNextEvent" =>
              /\ ret /\ outcome = "ok"
              /\ Event = firstEvent[1].ev
              /\ ~weightCached
        /\ (lastOp = "GetWeight" /\ isMC /\ ~cachedBefore) =>
              lastWeight = <<IF applyBTagReweighting
                             THEN firstEvent[1].ev.rawWeight
                                  * NonZeroProduct(JetFactors(firstEvent[1].ev.jets))
                             ELSE firstEvent[1].ev.rawWeight>>

\* C2 witness: such a call on a list of two trees, the first event having objects
C2_Witness ==
    /\ phase = "reread" /\ lastOp = "ReadNextEvent" /\ ret /\ Len(treeNames) = 2
    /\ firstEvent[1].ok /\ jets # <<>> /\ leptons # <<>> /\ isMC

\* The first ReadNextEvent after construction returned true
EventRead == firstEvent # <<>> /\ firstEvent[1].ok

\* C3 (as claimed): on a simulation sample, once an event was read, a GetWeight that follows another one,
\* with no ReadNextEvent and no SetSystematics between the two, returns the value
\* the earlier one returned and calls no CalculateJetWeight.
C3_CacheHit ==
    (lastOp = "GetWeight" /\ isMC /\ prevWeight # <<>> /\ EventRead) =>
        /\ lastWeight = prevWeight
        /\ nCalls = 0

\* C4 (as claimed): on a simulation sample with b-tag reweighting switched on,
\* once an event with jets was read, a
\* GetWeight that follows a call of ReadNextEvent or SetSystematics calls
\* CalculateJetWeight.
C4_AnyCallInvalidates ==
    (lastOp = "GetWeight" /\ isMC /\ applyBTagReweighting /\ EventRead /\ jets # <<>>
        /\ gwSince \in {"called", "invalidating"})
        => nCalls > 0

\* C4 (amended): on a simulation sample with b-tag reweighting switched on, the
\* first GetWeight after a ReadNextEvent that returned true or after any
\* SetSystematics finds the cache out of date and calls CalculateJetWeight once
\* for every jet of the nominal collection.
C4_Invalidation ==
    (lastOp = "GetWeight" /\ isMC /\ applyBTagReweighting /\ gwSince = "invalidating") =>
        /\ ~cachedBefore
        /\ nCalls = Len(jets)

\* C4 witness: a recomputation that called the reweighting for three jets
C4_Witness ==
    /\ lastOp = "GetWeight" /\ isMC /\ applyBTagReweighting /\ gwSince = "invalidating"
    /\ nCalls = 3 /\ curSystType = "Nominal"

\* C5: on a simulation sample a GetWeight that finds the cache out of date returns
\* rawWeight times the non-zero factors of the nominal jets under the current
\* systematics when b-tag reweighting is on, and rawWeight alone when it is off.
C5_Recomputation ==
    (lastOp = "GetWeight" /\ isMC /\ ~cachedBefore) =>
        /\ weightCached
        /\ lastWeight = <<weight>>
        /\ weight = IF applyBTagReweighting
                    THEN buf.rawWeight * NonZeroProduct(JetFactors(jets))
                    ELSE buf.rawWeight

\* C5 witness: a recomputation over nominal jets of which one has factor zero and
\* another has not, under JEC systematics where GetJets is another collection
C5_Witness ==
    /\ lastOp = "GetWeight" /\ isMC /\ ~cachedBefore /\ applyBTagReweighting
    /\ \E k \in 1..Len(jets) : JetFactors(jets)[k] = 0
    /\ \E k \in 1..Len(jets) : JetFactors(jets)[k] > 1
    /\ weight > buf.rawWeight
    /\ curSystType = "JEC" /\ GetJets # jets

\* C6: on a simulation sample GetJets and GetMET give the JEC-up jets and MET
\* under (JEC, Up), the JEC-down ones under (JEC, Down) and the nominal ones under
\* any other type; on data they give the nominal ones always.
C6_VariantSelection ==
    pc = "live" =>
        /\ (isMC /\ curSystType = "JEC" /\ curSystDirection = "Up")
              => (GetJets = jetsJECUp /\ GetMET = metJECUp)
        /\ (isMC /\ curSystType = "JEC" /\ curSystDirection = "Down")
              => (GetJets = jetsJECDown /\ GetMET = metJECDown)
        /\ (~isMC \/ curSystType # "JEC") => (GetJets = jets /\ GetMET = met)

\* C6 witness: (JEC, Up) selected on a simulation event whose three jet
\* collections and three MET values all differ
C6_Witness ==
    /\ pc = "live" /\ isMC /\ lastOp = "SetSystematics"
    /\ curSystType = "JEC" /\ curSystDirection = "Up"
    /\ jetsJECUp # jets /\ jetsJECUp # jetsJECDown /\ jets # jetsJECDown
    /\ metJECUp # met /\ metJECUp # metJECDown

\* s is in non-increasing pt
Ordered(s) == \A k \in 1..(Len(s) - 1) : s[k].pt >= s[k + 1].pt

\* s and t hold the same objects, each as many times
Count(s, x) == Cardinality({k \in 1..Len(s) : s[k] = x})
Permutation(s, t) ==
    /\ Len(s) = Len(t)
    /\ \A k \in 1..Len(t) : Count(s, t[k]) = Count(t, t[k])

\* C7: after a ReadNextEvent that returned true the leptons and the nominal jets,
\* and on simulation the JEC-up and JEC-down jets, are in non-increasing pt and
\* hold exactly the objects of the read buffers.
C7_Sorted ==
    (lastOp = "ReadNextEvent" /\ ret) =>
        /\ Ordered(leptons) /\ Permutation(leptons, buf.lep)
        /\ Ordered(jets) /\ Permutation(jets, buf.jet)
        /\ isMC => /\ Ordered(jetsJECUp) /\ Permutation(jetsJECUp, buf.jetUp)
                   /\ Ordered(jetsJECDown) /\ Permutation(jetsJECDown, buf.jetDown)

\* C7 witness: an event whose buffers hold three leptons and three jets that are
\* not in order, two of the jets with the same pt
C7_Witness ==
    /\ lastOp = "ReadNextEvent" /\ ret /\ isMC
    /\ Len(buf.jet) = 3 /\ buf.jet[1].pt < buf.jet[2].pt /\ buf.jet[2].pt = buf.jet[3].pt
    /\ Len(buf.lep) = 3 /\ buf.lep[1].pt < buf.lep[2].pt
    /\ jets # buf.jet /\ leptons # buf.lep /\ jetsJECUp # buf.jetUp

\* C8: from construction on, the direction stored with type Nominal is Up.
C8_ForcedDirection ==
    pc # "new" => (curSystType = "Nominal" => curSystDirection = "Up")

\* C8 witness: SetSystematics(Nominal, Down) was called
C8_Witness ==
    /\ lastOp = "SetSystematics" /\ arg = "Nominal:Down"
    /\ curSystType = "Nominal" /\ curSystDirection = "Up"

\* C9: construction over a valid file and a list whose first name is not in the
\* file ends in the runtime_error of GetTree; no object exists afterwards, no
\* entry was loaded and no event was decoded.
C9_MissingFirstTree ==
    (lastOp = "Reader" /\ srcFileOk /\ treeNames # <<>>) =>
        IF Resolvable(treeNames[1])
        THEN outcome = "ok" /\ pc = "live"
        ELSE /\ outcome = "MissingTree" /\ pc = "dead" /\ curTree = NoTree
             /\ loads = <<>> /\ firstEvent = <<>> /\ leptons = <<>> /\ jets = <<>>
             /\ buf \in UninitBufs

\* C9 witness: construction over the list X, B
C9_Witness ==
    /\ lastOp = "Reader" /\ treeNames = <<"X", "B">> /\ outcome = "MissingTree"
    /\ pc = "dead"

\* C10 (as claimed): construction over a valid file and an empty list of names
\* ends in a configuration error reported to the caller.
C10_EmptyList ==
    (lastOp = "Reader" /\ srcFileOk /\ treeNames = <<>>) => outcome = "ConfigurationError"

\* A Rewind that did not run into undefined behaviour
RewindReturned == lastOp = "Rewind" /\ outcome # "crash"

\* C11 (as claimed): a Rewind that finds the first listed tree missing from the
\* file ends in the runtime_error of GetTree, and the caller goes on with the
\* error in its hands, as after a ReadNextEvent that found the next tree missing.
C11_RewindPropagates ==
    (RewindReturned /\ ~Resolvable(treeNames[1])) =>
        (outcome = "MissingTree" /\ pc = "live")

\* C12: on a data sample every GetWeight returns 1 and calls no
\* CalculateJetWeight, whatever the event, the systematics, the b-tag switch and
\* the calls made before.
C12_DataWeight ==
    (lastOp = "GetWeight" /\ ~isMC) => (lastWeight = <<1>> /\ nCalls = 0)

\* C12 witness: GetWeight on a data event with jets, under BTag systematics with
\* the switch on, the cached weight marked out of date
C12_Witness ==
    /\ lastOp = "GetWeight" /\ ~isMC /\ EventRead /\ jets # <<>>
    /\ applyBTagReweighting /\ curSystType = "BTag" /\ ~weightCached
    /\ lastWeight = <<1>>

\* C13 (as claimed): while the object lives and no undefined behaviour took
\* place, curEntry lies between 0 and nEntries of the tree curTree holds, and the
\* index a ReadNextEvent has passed to GetEntry is an entry of that tree.
C13_CursorInRange ==
    (pc = "live" /\ ~dangling /\ ~pastEnd) =>
        /\ 0 <= curEntry /\ curEntry <= nEntries
        /\ (lastOp = "ReadNextEvent" /\ ret) =>
              (0 <= curEntry - 1 /\ curEntry - 1 < nEntries)

\* C14: a ReadNextEvent that returns false leaves the leptons, the jets and MET
\* with their variants, the vertex count, the raw weight, the systematics and
\* the cached weight with its flag as they were before the call.
C14_EndOfStreamFrame ==
    [][(lastOp' = "ReadNextEvent" /\ outcome' = "ok" /\ ~ret')
          => UNCHANGED <<decoded, syst, cache>>]_vars

\* C14 witness: false returned on a simulation sample that holds a decoded event
\* with jets, JEC systematics and an up-to-date cached weight
C14_Witness ==
    /\ lastOp = "ReadNextEvent" /\ outcome = "ok" /\ ~ret /\ isMC
    /\ jets # <<>> /\ leptons # <<>> /\ curSystType = "JEC" /\ weightCached
    /\ weight = buf.rawWeight * NonZeroProduct(JetFactors(jets)) /\ weight > 1

\* C15: a ReadNextEvent that ends in the runtime_error of GetTree, the next tree
\* being missing from the file, leaves the leptons, the jets and MET with their
\* variants, the vertex count, the raw weight, the systematics and the cached
\* weight with its flag as they were before the call.
C15_FailedBindFrame ==
    [][(lastOp' = "ReadNextEvent" /\ outcome' = "MissingTree")
          => UNCHANGED <<decoded, syst, cache>>]_vars

\* C15 witness: the error raised on a simulation sample that holds a decoded
\* event with jets, JEC systematics and an up-to-date cached weight
C15_Witness ==
    /\ lastOp = "ReadNextEvent" /\ outcome = "MissingTree" /\ isMC
    /\ jets # <<>> /\ curSystType = "JEC" /\ weightCached /\ weight > 1
    /\ curTree = NoTree /\ treeNames[curTreeNameIt] = "X"

\* C16: SwitchBTagReweighting writes the switch and nothing else of the object,
\* neither the cached weight nor its flag; on a simulation sample a GetWeight
\* called right after it, the cached weight being up to date, returns that
\* cached weight and calls no CalculateJetWeight.
C16_SwitchFrame ==
    [][/\ lastOp' = "SwitchBTagReweighting"
             => UNCHANGED <<args, pc, cursor, decoded, syst, cache>>
       /\ (lastOp = "SwitchBTagReweighting" /\ lastOp' = "GetWeight"
              /\ isMC /\ weightCached)
             => (lastWeight' = <<weight>> /\ nCalls' = 0 /\ UNCHANGED cache)]_vars

\* C16 witness: with the switch off GetWeight has returned a cached weight that
\* holds the b-tag factors of the jets, so that the switch was turned after the
\* weight was cached
C16_Witness ==
    /\ lastOp = "GetWeight" /\ isMC /\ EventRead /\ cachedBefore /\ nCalls = 0
    /\ ~applyBTagReweighting
    /\ lastWeight = <<weight>>
    /\ weight = buf.rawWeight * NonZeroProduct(JetFactors(jets))
    /\ weight # buf.rawWeight

\* C17 (as claimed): the tree curTree holds is released before the next one is
\* looked up, in Rewind and in the advance of ReadNextEvent alike, so that, the
\* iterator not having left the list, curTree never holds a tree that was
\* deleted and no ReadNextEvent ends in a fault.
C17_UnbindBeforeRebind ==
    ~pastEnd =>
        /\ ~dangling
        /\ ~(lastOp = "ReadNextEvent" /\ outcome = "crash")

\* The list is not empty and every listed tree is in the file
AllResolvable ==
    treeNames # <<>> /\ \A i \in 1..Len(treeNames) : Resolvable(treeNames[i])

\* C18 (as claimed): over a list of trees that are all in the file, trees
\* without entries among them, ReadNextEvent called again and again without
\* Rewind returns true once for each entry of the listed trees at most, so that
\* the call after that many returns false.
C18_FalseAfterAllEntries ==
    (pc = "live" /\ AllResolvable /\ ~dangling /\ ~pastEnd) =>
        Len(loads) <= Len(AllEntries)

\* C19 (as claimed): on a simulation sample whose b-tag switch was never
\* touched, once the first ReadNextEvent has returned true, every GetWeight
\* returns the raw weight of the event held times the non-zero factors of its
\* nominal jets under the systematics in force; and it returns what the
\* GetWeight before it returned when no ReadNextEvent and no SetSystematics was
\* called between the two, a Rewind between them or not.
C19_CacheCoherence ==
    (lastOp = "GetWeight" /\ isMC /\ EventRead /\ ~dangling /\ ~pastEnd) =>
        /\ lastWeight = <<buf.rawWeight * NonZeroProduct(JetFactors(jets))>>
        /\ prevWeight # <<>> => lastWeight = prevWeight

\* C20 (as claimed): a ReadNextEvent called after one that returned false, no
\* Rewind having been called since, returns false as well, without a fault and
\* with the iterator at the end of the list, where no tree is bound and no
\* entry loaded.
C20_StickyEnd ==
    (lastOp = "ReadNextEvent" /\ pastEnd) =>
        (outcome = "ok" /\ ~ret /\ curTreeNameIt = End)

====
